---------------------------- MODULE Spec2Model ----------------------------
(***************************************************************************)
(* Model of Nikon_HDR_Grouper.py: group_hdr_photos (segmentation of the    *)
(* sorted photo list into candidate runs, then refinement of the runs into *)
(* HDR groups) and parse_exposure_bias.                                    *)
(*                                                                         *)
(* A photo is a record [name, date, mode, bias]:                           *)
(*   name  the rank of "File Name" in the order of file names (an integer);*)
(*   date  "Date Taken" after parse_date: <<>> for None, <<t>> for a       *)
(*         datetime, t in whole seconds (strptime has no sub-second field);*)
(*   mode  "Exposure Mode", a string;                                      *)
(*   bias  "Exposure Bias", a string modelled as a sequence of characters. *)
(*                                                                         *)
(* A parsed bias is an exact fraction <<p, q>>, q > 0, in lowest terms.    *)
(* The code computes with IEEE doubles; the inputs of the specifications   *)
(* that accept groups carry biases of whole and half EV of small magnitude,*)
(* on which double arithmetic is exact and agrees with the fractions.      *)
(***************************************************************************)
EXTENDS Integers, Sequences, FiniteSets

VARIABLES data, i, temp_group, hdr_groups, g, final_groups, pc, raised,
          pass, first_groups

vars == <<data, i, temp_group, hdr_groups, g, final_groups, pc, raised,
          pass, first_groups>>

---------------------------------------------------------------------------
(* Strings as sequences of characters *)

Str1(a) == <<a>>
NA == <<"N", "/", "A">>

IsSpace(c) == c = " "

Contains(s, ch) == \E k \in 1..Len(s) : s[k] = ch

(* str.split(): the maximal runs of non-whitespace characters, in order *)
RECURSIVE SplitWsFrom(_, _, _)
SplitWsFrom(s, k, cur) ==
  IF k > Len(s)
  THEN IF cur = <<>> THEN <<>> ELSE <<cur>>
  ELSE IF IsSpace(s[k])
       THEN (IF cur = <<>> THEN <<>> ELSE <<cur>>) \o SplitWsFrom(s, k + 1, <<>>)
       ELSE SplitWsFrom(s, k + 1, Append(cur, s[k]))

SplitWs(s) == SplitWsFrom(s, 1, <<>>)

(* str.split(sep): the pieces between the separators, empty pieces kept *)
RECURSIVE SplitOnFrom(_, _, _, _)
SplitOnFrom(s, sep, k, cur) ==
  IF k > Len(s)
  THEN <<cur>>
  ELSE IF s[k] = sep
       THEN <<cur>> \o SplitOnFrom(s, sep, k + 1, <<>>)
       ELSE SplitOnFrom(s, sep, k + 1, Append(cur, s[k]))

SplitOn(s, sep) == SplitOnFrom(s, sep, 1, <<>>)

DigitChars == {"0", "1", "2", "3", "4", "5", "6", "7", "8", "9"}

DigitVal(c) ==
  CASE c = "0" -> 0 [] c = "1" -> 1 [] c = "2" -> 2 [] c = "3" -> 3
    [] c = "4" -> 4 [] c = "5" -> 5 [] c = "6" -> 6 [] c = "7" -> 7
    [] c = "8" -> 8 [] c = "9" -> 9

RECURSIVE DecimalOf(_, _)
DecimalOf(s, k) == IF k = 0 THEN 0 ELSE 10 * DecimalOf(s, k - 1) + DigitVal(s[k])

---------------------------------------------------------------------------
(* Exact fractions *)

Abs(x) == IF x < 0 THEN -x ELSE x

RECURSIVE Gcd(_, _)
Gcd(a, b) == IF b = 0 THEN a ELSE Gcd(b, a % b)

RNorm(p, q) ==
  LET d == Gcd(Abs(p), Abs(q))
      s == IF q < 0 THEN -1 ELSE 1
  IN  <<(s * p) \div d, (s * q) \div d>>

RInt(n) == <<n, 1>>
RSub(a, b) == RNorm(a[1] * b[2] - b[1] * a[2], a[2] * b[2])
RLess(a, b) == a[1] * b[2] < b[1] * a[2]

---------------------------------------------------------------------------
(* float(s) on the strings of the model: an optional sign, then one or more
   decimal digits; anything else is a ValueError.  Outcome: [tag, val]. *)

Ok(v) == [tag |-> "ok", val |-> v]
Fail(t) == [tag |-> t, val |-> <<0, 1>>]

float(s) ==
  LET signed == Len(s) > 0 /\ s[1] \in {"-", "+"}
      body == IF signed THEN SubSeq(s, 2, Len(s)) ELSE s
      n == DecimalOf(body, Len(body))
  IN  IF Len(body) > 0 /\ \A k \in 1..Len(body) : body[k] \in DigitChars
      THEN Ok(RInt(IF signed /\ s[1] = "-" THEN -n ELSE n))
      ELSE Fail("ValueError")

(* parse_exposure_bias(value): "none" is the None the except clause returns;
   a ZeroDivisionError is not caught and leaves the function. *)
parse_exposure_bias(value) ==
  IF Contains(value, "/")
  THEN LET parts == SplitOn(value, "/")
           numerator == float(parts[1])
           denominator == float(parts[2])
       IN  IF Len(parts) # 2 THEN Fail("none")
           ELSE IF numerator.tag # "ok" \/ denominator.tag # "ok" THEN Fail("none")
           ELSE IF denominator.val[1] = 0 THEN Fail("ZeroDivisionError")
           ELSE Ok(RNorm(numerator.val[1], denominator.val[1]))
  ELSE LET f == float(value)
       IN  IF f.tag = "ok" THEN f ELSE Fail("none")

(* One element of the comprehension of line 72:
   parse_exposure_bias(photo["Exposure Bias"].split()[0]) *)
BiasOf(photo) ==
  LET words == SplitWs(photo.bias)
  IN  IF words = <<>> THEN Fail("IndexError") ELSE parse_exposure_bias(words[1])

---------------------------------------------------------------------------
(* group_hdr_photos, first loop: segmentation *)

MaximumBracket == 9

time_diff(current, prev) ==
  IF current.date # <<>> /\ prev.date # <<>>
  THEN [inf |-> FALSE, secs |-> current.date[1] - prev.date[1]]
  ELSE [inf |-> TRUE, secs |-> 0]

same_mode(current, prev) == current.mode = prev.mode

(* a variant that also splits at a gap of exactly one second *)
TimeExceeds_AtOneSecond(td) == td.inf \/ td.secs >= 1

TimeExceeds(td) == td.inf \/ td.secs > 1

(* a variant that lets a run grow to one more than the maximum *)
StartsNewGroup_OverMaximum(current, prev, temp) ==
  /\ temp # <<>>
  /\ \/ TimeExceeds(time_diff(current, prev))
     \/ ~same_mode(current, prev)
     \/ Len(temp) > MaximumBracket

StartsNewGroup(current, prev, temp) ==
  /\ temp # <<>>
  /\ \/ TimeExceeds(time_diff(current, prev))
     \/ ~same_mode(current, prev)
     \/ Len(temp) >= MaximumBracket

(* a variant that closes a run without emptying the accumulator *)
NextTempGroup_NoReset(split, temp, current) == Append(temp, current)

(* lines 59-64: the accumulator after the current photo is added *)
NextTempGroup(split, temp, current) ==
  IF split THEN <<current>> ELSE Append(temp, current)

---------------------------------------------------------------------------
(* group_hdr_photos, second loop: refinement of one candidate run *)

(* lines 72-73: the outcomes of the photos whose bias string is not 'N/A' *)
Outcomes(group) ==
  LET kept == SelectSeq(group, LAMBDA photo : photo.bias # NA)
  IN  [k \in 1..Len(kept) |-> BiasOf(kept[k])]

IsError(o) == o.tag \notin {"ok", "none"}

(* the first exception the comprehension raises, "" when it raises none *)
RaisedBy(group) ==
  LET o == Outcomes(group)
      bad == {k \in 1..Len(o) : IsError(o[k])}
  IN  IF bad = {} THEN ""
      ELSE o[CHOOSE k \in bad : \A m \in bad : k <= m].tag

Biases(group) ==
  LET ok == SelectSeq(Outcomes(group), LAMBDA o : o.tag = "ok")
  IN  [k \in 1..Len(ok) |-> ok[k].val]

RECURSIVE Insert(_, _)
Insert(s, x) ==
  IF s = <<>> THEN <<x>>
  ELSE IF RLess(x, Head(s)) THEN <<x>> \o s
  ELSE <<Head(s)>> \o Insert(Tail(s), x)

RECURSIVE sorted(_)
sorted(s) == IF s = <<>> THEN <<>> ELSE Insert(sorted(SubSeq(s, 1, Len(s) - 1)), s[Len(s)])

unique_biases(biases) == {biases[k] : k \in 1..Len(biases)}

OddAtLeastThree(n) == ~(n < 3 \/ n % 2 = 0)

(* a variant that takes the middle of the sorted biases as the base *)
base_bias_Median(biases) == sorted(biases)[(Len(biases) + 1) \div 2]

base_bias(biases) == biases[1]

adjusted_biases(biases) == [k \in 1..Len(biases) |-> RSub(biases[k], base_bias(biases))]

(* a variant that takes the intervals between the distinct biases only *)
intervals_OfDistinct(biases) ==
  LET adjusted == adjusted_biases(biases)
      firsts == SelectSeq([k \in 1..Len(adjusted) |-> <<k, adjusted[k]>>],
                          LAMBDA e : \A m \in 1..(e[1] - 1) : adjusted[m] # e[2])
      sorted_biases == sorted([k \in 1..Len(firsts) |-> firsts[k][2]])
  IN  [k \in 1..(Len(sorted_biases) - 1) |-> RSub(sorted_biases[k + 1], sorted_biases[k])]

intervals(biases) ==
  LET sorted_biases == sorted(adjusted_biases(biases))
  IN  [k \in 1..(Len(sorted_biases) - 1) |-> RSub(sorted_biases[k + 1], sorted_biases[k])]

(* a variant that accepts any non-empty set of intervals *)
ConsistentIntervals_AnyStep(biases) ==
  Cardinality({intervals(biases)[k] : k \in 1..Len(intervals(biases))}) >= 1

ConsistentIntervals(biases) ==
  Cardinality({intervals(biases)[k] : k \in 1..Len(intervals(biases))}) = 1

num_under(biases) == Cardinality({k \in 1..Len(biases) : RLess(biases[k], base_bias(biases))})
num_over(biases) == Cardinality({k \in 1..Len(biases) : RLess(base_bias(biases), biases[k])})

(* a variant that only asks for no more frames under than over *)
Balanced_AtMost(biases) == num_under(biases) <= num_over(biases)

Balanced(biases) == num_under(biases) = num_over(biases)

(* a variant in which the early rejections of lines 75-85 are lost and only
   the test of line 97 decides *)
Accepts_NoEarlyReject(group) ==
  LET biases == Biases(group)
  IN  /\ biases # <<>>
      /\ ConsistentIntervals(biases)
      /\ Balanced(biases)

Accepts(group) ==
  LET biases == Biases(group)
  IN  /\ biases # <<>>
      /\ Cardinality(unique_biases(biases)) # 1
      /\ OddAtLeastThree(Len(biases))
      /\ ConsistentIntervals(biases)
      /\ Balanced(biases)

---------------------------------------------------------------------------
(* The steps of group_hdr_photos *)

SegmentStep ==
  /\ pc = "segment"
  /\ i < Len(data)
  /\ LET current == data[i + 1]
         split == i > 0 /\ StartsNewGroup(current, data[i], temp_group)
     IN  /\ hdr_groups' = IF split THEN Append(hdr_groups, temp_group) ELSE hdr_groups
         /\ temp_group' = NextTempGroup(split, temp_group, current)
  /\ i' = i + 1
  /\ UNCHANGED <<data, g, final_groups, pc, raised, pass, first_groups>>

SegmentFinish ==
  /\ pc = "segment"
  /\ i = Len(data)
  /\ hdr_groups' = IF temp_group # <<>> THEN Append(hdr_groups, temp_group) ELSE hdr_groups
  /\ pc' = "refine"
  /\ UNCHANGED <<data, i, temp_group, g, final_groups, raised, pass, first_groups>>

RefineStep ==
  /\ pc = "refine"
  /\ g < Len(hdr_groups)
  /\ LET group == hdr_groups[g + 1]
     IN  IF RaisedBy(group) # ""
         THEN /\ pc' = "raised"
              /\ raised' = RaisedBy(group)
              /\ UNCHANGED <<g, final_groups>>
         ELSE /\ final_groups' = IF Accepts(group) THEN Append(final_groups, group)
                                 ELSE final_groups
              /\ g' = g + 1
              /\ UNCHANGED <<pc, raised>>
  /\ UNCHANGED <<data, i, temp_group, hdr_groups, pass, first_groups>>

Return ==
  /\ pc = "refine"
  /\ g = Len(hdr_groups)
  /\ pc' = "done"
  /\ UNCHANGED <<data, i, temp_group, hdr_groups, g, final_groups, raised, pass, first_groups>>

Next == SegmentStep \/ SegmentFinish \/ RefineStep \/ Return

(* main, line 156: sorted(data, key = (Date Taken or datetime.min, File Name)) *)
KeyLess(a, b) ==
  IF a.date = b.date THEN a.name < b.name
  ELSE IF a.date = <<>> THEN TRUE
  ELSE IF b.date = <<>> THEN FALSE
  ELSE a.date[1] < b.date[1]

RECURSIVE InsertByKey(_, _)
InsertByKey(s, x) ==
  IF s = <<>> THEN <<x>>
  ELSE IF KeyLess(x, Head(s)) THEN <<x>> \o s
  ELSE <<Head(s)>> \o InsertByKey(Tail(s), x)

RECURSIVE SortByKey(_)
SortByKey(s) ==
  IF s = <<>> THEN <<>> ELSE InsertByKey(SortByKey(SubSeq(s, 1, Len(s) - 1)), s[Len(s)])

(* a variant that sorts in descending order *)
SortByDateAndName_Descending(s) ==
  LET asc == SortByKey(s)
  IN  [k \in 1..Len(asc) |-> asc[Len(asc) + 1 - k]]

SortByDateAndName(s) == SortByKey(s)

RECURSIVE Flatten(_)
Flatten(groups) == IF groups = <<>> THEN <<>> ELSE Head(groups) \o Flatten(Tail(groups))

(* A second run of main's steps 3-4 over the photos of the returned groups:
   the list is sorted again and handed to group_hdr_photos. *)
Rerun ==
  /\ pc = "done"
  /\ pass = 1
  /\ first_groups' = final_groups
  /\ data' = SortByDateAndName(Flatten(final_groups))
  /\ i' = 0
  /\ temp_group' = <<>>
  /\ hdr_groups' = <<>>
  /\ g' = 0
  /\ final_groups' = <<>>
  /\ pc' = "segment"
  /\ pass' = 2
  /\ UNCHANGED raised

NextIdem == SegmentStep \/ SegmentFinish \/ RefineStep \/ Return \/ Rerun

Start(input) ==
  /\ data = input
  /\ i = 0
  /\ temp_group = <<>>
  /\ hdr_groups = <<>>
  /\ g = 0
  /\ final_groups = <<>>
  /\ pc = "segment"
  /\ raised = ""
  /\ pass = 1
  /\ first_groups = <<>>

---------------------------------------------------------------------------
(* Inputs *)

Present(t) == <<t>>
Absent == <<>>

Modes == {"Auto", "Manual"}

Zero == Str1("0")
Minus(d) == <<"-", d>>

(* dates that advance by gaps[k] seconds before photo k *)
RECURSIVE DateAt(_, _)
DateAt(gaps, k) == IF k = 1 THEN 0 ELSE DateAt(gaps, k - 1) + gaps[k]

Photo(k, date, mode, bias) == [name |-> k, date |-> date, mode |-> mode, bias |-> bias]

(* Spec: every list of at most MaxLen photos of one mode, sorted by date,
   consecutive photos 1 or 2 seconds apart, each bias string one of 0, -1,
   1, 1/2, 'N/A', or a fraction that lacks its denominator *)
MaxLen == 4

NoDenominator == <<"1", "/">>

Half == <<"1", "/", "2">>

ShortBiases == {Zero, Minus("1"), Str1("1"), Half, NA, NoDenominator}
ShortGaps == {1, 2}

Init ==
  \E n \in 0..MaxLen :
    \E gaps \in [2..n -> ShortGaps], biases \in [1..n -> ShortBiases] :
      Start([k \in 1..n |-> Photo(k, Present(DateAt(gaps, k)), "Auto", biases[k])])

Spec == Init /\ [][Next]_vars

---------------------------------------------------------------------------
(* Shooting sessions: lists in which consecutive photos are one second apart
   in the same mode except at a few cues.  A cue <<gap, flip>> before photo k
   sets the gap to photo k-1 and, when flip holds, changes the mode.  The
   first photos may lack a date (they sort first, as datetime.min).  The bias
   of photo k follows a repeating pattern. *)

DefaultLink == <<1, FALSE>>
CueKinds == ({0, 1, 2} \X BOOLEAN) \ {DefaultLink}

Centered == <<Zero, Minus("1"), Str1("1"), Minus("2"), Str1("2"),
              Minus("3"), Str1("3"), Minus("4"), Str1("4")>>
Triplet == <<Zero, Minus("1"), Str1("1")>>
CenteredNA == Centered \o <<NA>>
TripletNA == Triplet \o <<NA>>

PatternAt(pattern, k) == pattern[((k - 1) % Len(pattern)) + 1]

LinkAt(cues, k) == IF k \in DOMAIN cues THEN cues[k] ELSE DefaultLink

RECURSIVE SessionDate(_, _, _)
SessionDate(cues, first, k) ==
  IF k <= first THEN 0 ELSE SessionDate(cues, first, k - 1) + LinkAt(cues, k)[1]

SessionMode(cues, k) ==
  IF Cardinality({m \in 2..k : LinkAt(cues, m)[2]}) % 2 = 0 THEN "Auto" ELSE "Manual"

Session(n, cues, undated, pattern) ==
  [k \in 1..n |->
     Photo(k,
           IF k <= undated THEN Absent ELSE Present(SessionDate(cues, undated + 1, k)),
           SessionMode(cues, k),
           PatternAt(pattern, k))]

StartSession(maxLen, maxCues, maxUndated, patterns) ==
  \E n \in 0..maxLen :
    \E at \in {S \in SUBSET (2..n) : Cardinality(S) <= maxCues} :
      \E cues \in [at -> CueKinds],
         undated \in 0..(IF n < maxUndated THEN n ELSE maxUndated),
         pattern \in patterns :
        Start(Session(n, cues, undated, pattern))

(* SpecSeg: sessions long enough for the cut at MaximumBracket *)
MaxSegLen == 11
MaxCues == 1
MaxUndated == 1

InitSeg ==
  StartSession(MaxSegLen, MaxCues, MaxUndated, {Centered, Triplet, CenteredNA, TripletNA})

SpecSeg == InitSeg /\ [][Next]_vars

(* SpecIdem: sessions with two cues, grouped, then grouped again *)
MaxIdemLen == 7
MaxIdemCues == 2

InitIdem == StartSession(MaxIdemLen, MaxIdemCues, 0, {Triplet, TripletNA})

SpecIdem == InitIdem /\ [][NextIdem]_vars

---------------------------------------------------------------------------
(* SpecA: five photos of one mode, one second apart, carrying the biases
   -2, -1, 0, 1, 2 in every capture order *)

DigitChar(n) ==
  CASE n = 0 -> "0" [] n = 1 -> "1" [] n = 2 -> "2" [] n = 3 -> "3" [] n = 4 -> "4"
    [] n = 5 -> "5" [] n = 6 -> "6" [] n = 7 -> "7" [] n = 8 -> "8" [] n = 9 -> "9"

(* the bias string of a whole number of EV between -9 and 9 *)
BiasString(n) == IF n < 0 THEN Minus(DigitChar(-n)) ELSE Str1(DigitChar(n))

Ascending5 == [k \in 1..5 |-> BiasString(k - 3)]

Orders(seq) ==
  {[k \in 1..Len(seq) |-> seq[f[k]]] :
     f \in {h \in [1..Len(seq) -> 1..Len(seq)] :
              \A a, b \in 1..Len(seq) : a # b => h[a] # h[b]}}

Burst(n, gap, mode, biases) ==
  [k \in 1..n |-> Photo(k, Present(gap * (k - 1)), mode, biases[k])]

InitA ==
  \E mode \in Modes, order \in Orders(Ascending5) : Start(Burst(5, 1, mode, order))

SpecA == InitA /\ [][Next]_vars

(* SpecD: 2 * 9 + 1 photos of one mode, all 0 or all 1 second apart, whose
   biases repeat a symmetric triplet (middle exposure first) or a symmetric
   bracket of 9 distinct biases (middle exposure first) *)

ScenarioDLen == 2 * MaximumBracket + 1

SymmetricTriplets ==
  UNION {{<<BiasString(c), BiasString(c - d), BiasString(c + d)>>,
          <<BiasString(c), BiasString(c + d), BiasString(c - d)>>} :
         c \in {-1, 0, 1}, d \in {1, 2}}

Mirrored == [k \in 1..Len(Centered) |->
               IF k = 1 THEN Zero ELSE IF k % 2 = 0 THEN Centered[k + 1] ELSE Centered[k - 1]]

SymmetricNines == {Centered, Mirrored}

InitD ==
  \E mode \in Modes, gap \in {0, 1}, pattern \in SymmetricTriplets \cup SymmetricNines :
    Start(Burst(ScenarioDLen, gap, mode, [k \in 1..ScenarioDLen |-> PatternAt(pattern, k)]))

SpecD == InitD /\ [][Next]_vars

(* SpecParse: at most one photo, its bias any string of at most MaxStrLen
   characters of ParseChars *)

MaxStrLen == 3
MaxParseLen == 1

ParseChars == {"0", "1", "2", "-", "/", " ", "N", "A"}

Strings == UNION {[1..n -> ParseChars] : n \in 0..MaxStrLen}

InitParse ==
  \E n \in 0..MaxParseLen :
    \E dates \in [1..n -> {Absent, Present(0)}], biases \in [1..n -> Strings] :
      Start([k \in 1..n |-> Photo(k, dates[k], "Auto", biases[k])])

SpecParse == InitParse /\ [][Next]_vars

---------------------------------------------------------------------------
(* Vocabulary of the properties *)

Returned == pc = "done"

(* the parsed biases of the members whose bias is present, in member order *)
PresentValues(group) ==
  LET has == SelectSeq(group, LAMBDA photo : photo.bias # NA /\ BiasOf(photo).tag = "ok")
  IN  [k \in 1..Len(has) |-> BiasOf(has[k]).val]

RemoveAt(s, m) == SubSeq(s, 1, m - 1) \o SubSeq(s, m + 1, Len(s))

RECURSIVE Ascending(_)
Ascending(s) ==
  IF s = <<>> THEN <<>>
  ELSE LET m == CHOOSE k \in 1..Len(s) : \A j \in 1..Len(s) : ~RLess(s[j], s[k])
       IN  <<s[m]>> \o Ascending(RemoveAt(s, m))

Below(vals, base) == {k \in 1..Len(vals) : RLess(vals[k], base)}
Above(vals, base) == {k \in 1..Len(vals) : RLess(base, vals[k])}

BracketSizes == {3, 5, 7, 9}

C7_EqualIntervalsBalanced ==
  Returned =>
    \A k \in 1..Len(final_groups) :
      LET vals == PresentValues(final_groups[k])
          base == vals[1]
          asc == Ascending([m \in 1..Len(vals) |-> RSub(vals[m], base)])
      IN  /\ vals # <<>>
          /\ \A a, b \in 1..(Len(asc) - 1) :
               RSub(asc[a + 1], asc[a]) = RSub(asc[b + 1], asc[b])
          /\ Cardinality(Below(vals, base)) = Cardinality(Above(vals, base))

C7_Witness ==
  /\ Returned
  /\ \E k \in 1..Len(final_groups) :
       LET vals == PresentValues(final_groups[k])
       IN  /\ Len(vals) = 3
           /\ vals[1] = <<1, 2>>
           /\ Below(vals, vals[1]) # {}

(* C10: in every returned group the present biases are pairwise distinct and
   the bias of the first member that has one is their median: of n present
   biases exactly (n-1)/2 lie below it and (n-1)/2 above it; so it is neither
   the lowest nor the highest bias of the group. *)
C10_DistinctAndMedian ==
  Returned =>
    \A k \in 1..Len(final_groups) :
      LET vals == PresentValues(final_groups[k])
          n == Len(vals)
          base == vals[1]
      IN  /\ n > 0
          /\ \A a, b \in 1..n : a # b => vals[a] # vals[b]
          /\ 2 * Cardinality(Below(vals, base)) = n - 1
          /\ 2 * Cardinality(Above(vals, base)) = n - 1
          /\ \E a \in 1..n : RLess(vals[a], base)
          /\ \E a \in 1..n : RLess(base, vals[a])

(* a group of three was returned whose first bias lies strictly between
   the other two, the higher one captured second *)
C10_Witness ==
  /\ Returned
  /\ \E k \in 1..Len(final_groups) :
       LET vals == PresentValues(final_groups[k])
       IN  /\ Len(vals) = 3
           /\ RLess(vals[1], vals[2])
           /\ RLess(vals[3], vals[1])

---------------------------------------------------------------------------
(* Claims about segmentation and about sizes, under SpecSeg *)

RECURSIVE TotalLen(_, _)
TotalLen(groups, k) == IF k = 0 THEN 0 ELSE TotalLen(groups, k - 1) + Len(groups[k])

(* the input positions at which a candidate run starts *)
RunStarts == {1 + TotalLen(hdr_groups, k) : k \in 0..(Len(hdr_groups) - 1)}

(* the members the run holding photo j has up to and including photo j *)
MembersUpTo(j) ==
  LET start == CHOOSE a \in RunStarts : a <= j /\ \A b \in RunStarts : b <= j => b <= a
  IN  j - start + 1

GapOverOneSecond(k) ==
  \/ data[k].date = <<>>
  \/ data[k - 1].date = <<>>
  \/ data[k].date[1] - data[k - 1].date[1] > 1

ModeChanged(k) == data[k].mode # data[k - 1].mode

GapIs(k, secs) ==
  /\ data[k].date # <<>>
  /\ data[k - 1].date # <<>>
  /\ data[k].date[1] - data[k - 1].date[1] = secs

Segmented == pc \in {"refine", "done"}

(* C9: the candidate runs are non-empty, their concatenation is the input,
   no run and at no step the accumulator has more than 9 members, and a run
   starts at photo k > 1 exactly when the gap to photo k-1 exceeds one second
   (an absent date counts as an infinite gap), the mode differs from that of
   photo k-1, or the run of photo k-1 already has 9 members. *)
C9_Segmentation ==
  /\ Len(temp_group) <= 9
  /\ Segmented =>
       /\ \A k \in 1..Len(hdr_groups) : Len(hdr_groups[k]) \in 1..9
       /\ Flatten(hdr_groups) = data
       /\ \A k \in 2..Len(data) :
            (k \in RunStarts) <=>
              (GapOverOneSecond(k) \/ ModeChanged(k) \/ MembersUpTo(k - 1) = 9)

(* a run was closed by its size alone, one by a gap of two seconds, and a
   gap of exactly one second was kept inside a run *)
C9_Witness ==
  /\ Segmented
  /\ \E k \in 2..Len(data) :
       k \in RunStarts /\ ~GapOverOneSecond(k) /\ ~ModeChanged(k)
  /\ \E k \in 2..Len(data) :
       k \in RunStarts /\ GapIs(k, 2) /\ ~ModeChanged(k)
  /\ \E k \in 2..Len(data) :
       k \notin RunStarts /\ GapIs(k, 1)

(* the position in the input at which group k of the result starts, 0 when
   the group is no slice of the input *)
SliceStart(group) ==
  LET fits == {a \in 1..Len(data) :
                 /\ a + Len(group) - 1 <= Len(data)
                 /\ group = SubSeq(data, a, a + Len(group) - 1)}
  IN  IF fits = {} THEN 0 ELSE CHOOSE a \in fits : TRUE

(* C5: every returned group is a contiguous slice of the input in input
   order, the groups come in input order, and no photo is in two groups. *)
C5_ContiguousDisjoint ==
  Returned =>
    /\ \A k \in 1..Len(final_groups) :
         final_groups[k] # <<>> /\ SliceStart(final_groups[k]) > 0
    /\ \A k \in 1..(Len(final_groups) - 1) :
         SliceStart(final_groups[k]) + Len(final_groups[k]) <= SliceStart(final_groups[k + 1])
    /\ \A j, k \in 1..Len(final_groups) :
         j # k => \A a \in 1..Len(final_groups[j]), b \in 1..Len(final_groups[k]) :
                    final_groups[j][a] # final_groups[k][b]

(* two groups were returned, the second one not starting at photo 1 *)
C5_Witness ==
  /\ Returned
  /\ Len(final_groups) >= 2
  /\ SliceStart(final_groups[2]) > Len(final_groups[1])

AllPresent(group) == Len(PresentValues(group)) = Len(group)

---------------------------------------------------------------------------
(* Idempotence, under SpecIdem *)

SecondReturned == pc = "done" /\ pass = 2

(* C2 as stated: grouping the sorted concatenation of the returned groups
   returns the same list of groups. *)
C2_IdempotentAsStated == SecondReturned => final_groups = first_groups

(* the last member of a group and the first member of the next one are more
   than one second apart or differ in mode, or the group has 9 members *)
StillSeparated(groups) ==
  \A k \in 1..(Len(groups) - 1) :
    LET last == groups[k][Len(groups[k])]
        first == groups[k + 1][1]
    IN  \/ last.date = <<>>
        \/ first.date = <<>>
        \/ first.date[1] - last.date[1] > 1
        \/ first.mode # last.mode
        \/ Len(groups[k]) = 9

(* C2 amended: grouping the sorted concatenation of the returned groups
   returns the same list of groups whenever every two consecutive returned
   groups are still separated in the concatenation by a gap of more than one
   second, a change of mode, or the first of the two having 9 members. *)
C2_IdempotentWhenSeparated ==
  (SecondReturned /\ StillSeparated(first_groups)) => final_groups = first_groups

(* two groups were returned with a refused photo between them, and the
   second run returned them again *)
C2_Witness ==
  /\ SecondReturned
  /\ Len(first_groups) = 2
  /\ first_groups[2][1].name > first_groups[1][Len(first_groups[1])].name + 1
  /\ StillSeparated(first_groups)
  /\ final_groups = first_groups

---------------------------------------------------------------------------
(* Scenario A, under SpecA *)

InCaptureOrder(order) == \A k \in 1..Len(data) : data[k].bias = order[k]

(* C1 as stated: five photos of one mode, one second apart, with biases
   -2, -1, 0, 1, 2 in that capture order are returned as one group of 5. *)
C1_ScenarioAAsStated ==
  (Returned /\ InCaptureOrder(Ascending5)) => final_groups = <<data>>

(* C1 amended: five photos of one mode, one second apart, with biases
   -2, -1, 0, 1, 2 in that capture order are returned in no group; the five
   are returned as exactly one group of all 5 exactly when the photo captured
   first is the one with bias 0. *)
C1_ScenarioAAmended ==
  Returned =>
    /\ InCaptureOrder(Ascending5) => final_groups = <<>>
    /\ final_groups = IF data[1].bias = Zero THEN <<data>> ELSE <<>>

C1_Witness ==
  /\ Returned
  /\ InCaptureOrder(Ascending5)
  /\ hdr_groups = <<data>>
  /\ final_groups = <<>>

---------------------------------------------------------------------------
(* Scenario D, under SpecD *)

RepeatsTriplet == \A k \in 4..Len(data) : data[k].bias = data[k - 3].bias

FirstNine == SubSeq(data, 1, 9)
SecondNine == SubSeq(data, 10, 18)

(* C4 as stated: 19 photos of one mode, at most one second apart, whose
   biases repeat a symmetric triplet are returned as two groups of 9, photos
   1-9 and 10-18, photo 19 being in no group. *)
C4_ScenarioDAsStated ==
  (Returned /\ RepeatsTriplet) => final_groups = <<FirstNine, SecondNine>>

(* C4 amended: the candidate runs of such 19 photos are photos 1-9, 10-18
   and 19; when the biases repeat a symmetric triplet no group is returned
   (each run of 9 holds every bias three times, so its sorted intervals are
   not all equal); when they repeat a symmetric bracket of 9 distinct biases
   with the middle exposure first, two groups of 9 are returned, photos 1-9
   and 10-18, and photo 19 is in no group. *)
C4_ScenarioDAmended ==
  Returned =>
    /\ hdr_groups = <<FirstNine, SecondNine, <<data[19]>>>>
    /\ final_groups = IF RepeatsTriplet THEN <<>> ELSE <<FirstNine, SecondNine>>

C4_Witness ==
  /\ Returned
  /\ RepeatsTriplet
  /\ Len(data) = 19
  /\ Len(hdr_groups) = 3
  /\ final_groups = <<>>

---------------------------------------------------------------------------
(* Failures, under SpecParse *)

NoDate == \A k \in 1..Len(data) : data[k].date = <<>>
NoParsableBias == \A k \in 1..Len(data) : data[k].bias = NA \/ BiasOf(data[k]).tag # "ok"

(* C3: group_hdr_photos never fails: whatever the dates and the bias strings
   (empty, blank, not a number, a zero denominator, more than one '/'), it
   returns a list of groups, and an empty one when no photo has a date or no
   photo has a parsable bias. *)
C3_NeverFails ==
  /\ pc # "raised"
  /\ (Returned /\ (NoDate \/ NoParsableBias)) => final_groups = <<>>

=============================================================================
